---- MODULE Spec2Model ----
(***************************************************************************)
(* Model of the Seistrack power-analysis script (Seistrack_Daily.py).      *)
(* One script run is a linear pass over the uploaded file: read, rename,   *)
(* parse Time, validate, clean, calibrate, export, summarise, mark         *)
(* extrema, highlight ranges, harvest/grid split.  Every widget            *)
(* interaction starts a fresh run from the top.                            *)
(*                                                                         *)
(* Numbers are exact rationals <<numerator, denominator>> (denominator     *)
(* > 0, lowest terms); binary64 rounding is not modelled.                  *)
(***************************************************************************)
EXTENDS Integers, Sequences, FiniteSets, TLC

\* Largest number of data rows of an uploaded file with canonical headers.
MaxRows == 3
\* Largest number of data rows of an uploaded file whose headers need renaming.
MaxRenameRows == 1

(***************************************************************************)
(* Exact rational arithmetic.                                              *)
(***************************************************************************)
IAbs(n) == IF n < 0 THEN -n ELSE n

RECURSIVE GCD(_, _)
GCD(x, y) == IF y = 0 THEN x ELSE GCD(y, x % y)

Norm(n, d) ==
  LET g == GCD(IAbs(n), IAbs(d))
      s == IF d < 0 THEN -1 ELSE 1
  IN  <<(s * n) \div g, (s * d) \div g>>

Rat(n)     == <<n, 1>>
RAdd(x, y) == Norm(x[1] * y[2] + y[1] * x[2], x[2] * y[2])
RSub(x, y) == Norm(x[1] * y[2] - y[1] * x[2], x[2] * y[2])
RMul(x, y) == Norm(x[1] * y[1], x[2] * y[2])
RDiv(x, y) == Norm(x[1] * y[2], x[2] * y[1])
RAbs(x)    == <<IAbs(x[1]), x[2]>>
RLe(x, y)  == x[1] * y[2] <= y[1] * x[2]
RLt(x, y)  == x[1] * y[2] < y[1] * x[2]

\* A name that no assignment has bound yet.
Unbound == <<>>
\* float('nan'): what pandas returns for min/max/mean of an empty column.
NaN == <<0, 0>>

(***************************************************************************)
(* The uploaded file.                                                      *)
(***************************************************************************)
required_columns == <<"Time", "PV(W)", "Meter(W)", "Load(W)">>

Range(s) == {s[i] : i \in 1..Len(s)}

\* Header rows of the uploaded files: canonical, one field misnamed, two
\* fields misnamed.
Headers ==
  { <<"Time", "PV(W)", "Meter(W)", "Load(W)">>,
    <<"Date", "PV(W)", "Meter(W)", "Load(W)">>,
    <<"Date", "Solar", "Meter(W)", "Load(W)">> }

\* Data rows of the uploaded files, by column position: the text of the time
\* cell and the three power readings in watts.
FileRows ==
  { <<"2025-04-09 02:20:00", 1000, -500, 1500>>,
    <<"2025-04-09 02:25:00", 2000, 500, 2500>>,
    <<"2025-04-09 02:30:00", 3000, -3000, 6000>>,
    <<"N/A", 2000, 1000, 3000>> }

RECURSIVE SeqsUpTo(_, _)
SeqsUpTo(S, n) ==
  IF n = 0 THEN {<<>>}
  ELSE LET shorter == SeqsUpTo(S, n - 1)
       IN  shorter \cup {Append(s, x) : s \in shorter, x \in S}

\* Every file has at least one data row.
Files ==
  {[columns |-> required_columns, rows |-> rs] :
      rs \in SeqsUpTo(FileRows, MaxRows) \ {<<>>}}
  \cup
  {[columns |-> h, rows |-> rs] :
      h \in Headers \ {required_columns},
      rs \in SeqsUpTo(FileRows, MaxRenameRows) \ {<<>>}}

(***************************************************************************)
(* Data frames: a sequence of column labels and a sequence of rows, each   *)
(* row a sequence of cells in column order.                                *)
(***************************************************************************)
NoFrame == [columns |-> <<>>, rows |-> <<>>]

ColIndex(columns, label) == CHOOSE i \in 1..Len(columns) : columns[i] = label

Cell(df, row, label) == row[ColIndex(df.columns, label)]

Column(df, label) == [i \in 1..Len(df.rows) |-> Cell(df, df.rows[i], label)]

\* df[label] = xs: replace the cells of one column, or append the column.
SetColumn(df, label, xs) ==
  IF label \in Range(df.columns)
  THEN [df EXCEPT !.rows =
          [i \in 1..Len(df.rows) |->
             [df.rows[i] EXCEPT ![ColIndex(df.columns, label)] = xs[i]]]]
  ELSE [columns |-> Append(df.columns, label),
        rows    |-> [i \in 1..Len(df.rows) |-> Append(df.rows[i], xs[i])]]

\* pd.read_csv / pd.read_excel: the first column is text (dtype object), the
\* others are numeric.
read_csv(f) ==
  [columns |-> f.columns,
   rows    |-> [i \in 1..Len(f.rows) |->
                  [j \in 1..Len(f.columns) |->
                     IF j = 1 THEN f.rows[i][j] ELSE Rat(f.rows[i][j])]]]

RenameColumn(columns, old, new) ==
  [i \in 1..Len(columns) |-> IF columns[i] = old THEN new ELSE columns[i]]

available_options(columns) ==
  SelectSeq(columns, LAMBDA c : c \notin Range(required_columns))

(***************************************************************************)
(* Time parsing.  Timestamps are minutes since 2025-04-09 00:00.           *)
(***************************************************************************)
NaT == -999999

MinutesPerDay == 1440

ParseText(c) ==
  CASE c = "2025-04-09 02:20:00" -> 140
    [] c = "2025-04-09 02:25:00" -> 145
    [] c = "2025-04-09 02:30:00" -> 150
    [] OTHER -> NaT

\* pd.to_datetime(errors="coerce") on the cell at position j of the file: text
\* is parsed, unparseable text becomes NaT, a number is an epoch offset.
to_datetime(j, c) == IF j = 1 THEN ParseText(c) ELSE c[1] \div c[2]

\* Mutant: nothing is dropped.
dropna_keep_all(df) == df

\* df.dropna(subset=["Time"]): order kept, rows with NaT removed.
dropna(df) ==
  [df EXCEPT !.rows = SelectSeq(df.rows, LAMBDA r : Cell(df, r, "Time") # NaT)]

\* Mutant: the validation forgets the channels and looks for Time alone.
missing_columns_time_only(columns) ==
  SelectSeq(<<"Time">>, LAMBDA c : c \notin Range(columns))

missing_columns(columns) ==
  SelectSeq(required_columns, LAMBDA c : c \notin Range(columns))

(***************************************************************************)
(* State of one session.                                                   *)
(***************************************************************************)
VARIABLES
  uploaded_file,   \* the uploaded file; it stays the same across the runs
  page_buttons,    \* the rename buttons the page shows (from the latest run)
  pc,              \* the section of the script the current run is at
  df_raw,          \* the table read from the file, renamed, parsed, calibrated
  errors,          \* what st.error has shown in this run
  exception,       \* the uncaught exception that ended the run, or "none"
  min_meter, max_meter, min_actual, max_actual,   \* calibration references
  m, b,            \* slope and intercept
  adjusted_value,  \* the probe reading, calibrated
  csv,             \* the text offered by "Download Processed CSV"
  df_plot,         \* the table the summaries and charts read
  summary,         \* total/min/max/mean per channel, in kW
  data_date,       \* the representative date
  visible_series, markers,
  highlight,       \* the highlight traces added to the figure
  harvest,         \* the HARVEST VS GRID result
  clicked,         \* the rename button that is True in this run, or "none"
  confirmed        \* the fields whose rename button the user has clicked so far

vars == <<uploaded_file, page_buttons, confirmed, clicked, pc, df_raw, errors, exception, min_meter, max_meter,
          min_actual, max_actual, m, b, adjusted_value, csv, df_plot, summary,
          data_date, visible_series, markers, highlight, harvest>>

calibration_vars == <<min_meter, max_meter, min_actual, max_actual, m, b, adjusted_value>>
output_vars == <<csv, df_plot, summary, data_date, visible_series, markers, highlight, harvest>>

NoCsv     == [header |-> <<>>, lines |-> <<>>]
NoSummary == [pv |-> Unbound, load |-> Unbound, meter |-> Unbound]
NoHighlight == [series |-> "none", lower |-> Unbound, upper |-> Unbound,
                rows |-> <<>>, trace |-> FALSE]
NoHarvest == [state |-> "unset", total_pv |-> Unbound, total_meter_abs |-> Unbound,
              range |-> Unbound]

\* The names of a fresh run of the script: nothing is bound yet.
FreshRun ==
  /\ pc = "read"
  /\ clicked = "none"
  /\ df_raw = NoFrame
  /\ errors = {}
  /\ exception = "none"
  /\ min_meter = Unbound /\ max_meter = Unbound
  /\ min_actual = Unbound /\ max_actual = Unbound
  /\ m = Unbound /\ b = Unbound
  /\ adjusted_value = Unbound
  /\ csv = NoCsv
  /\ df_plot = NoFrame
  /\ summary = NoSummary
  /\ data_date = NaT
  /\ visible_series = <<>>
  /\ markers = <<>>
  /\ highlight = NoHighlight
  /\ harvest = NoHarvest

Init ==
  /\ uploaded_file \in Files
  /\ page_buttons = {}
  /\ confirmed = {}
  /\ FreshRun

(***************************************************************************)
(* Read the file (lines 61-82).                                            *)
(***************************************************************************)
ReadFile ==
  /\ pc = "read"
  /\ df_raw' = read_csv(uploaded_file)
  /\ pc' = "rename"
  /\ UNCHANGED <<uploaded_file, page_buttons, confirmed, clicked, errors, exception, calibration_vars, output_vars>>

(***************************************************************************)
(* Column renaming (lines 87-104).  btn is the rename button whose click   *)
(* started this run ("none": the run was started by something else);       *)
(* choice is what its selectbox holds.                                     *)
(***************************************************************************)
NoOptionsError == [kind |-> "NoAvailableColumns", names |-> <<>>]

RECURSIVE RenameLoop(_, _, _, _, _, _)
RenameLoop(i, columns, errs, shown, btn, choice) ==
  IF i > Len(required_columns)
  THEN [columns |-> columns, errors |-> errs, buttons |-> shown]
  ELSE LET desired_col == required_columns[i] IN
       IF desired_col \in Range(columns)
       THEN RenameLoop(i + 1, columns, errs, shown, btn, choice)
       ELSE IF available_options(columns) = <<>>
       THEN RenameLoop(i + 1, columns, errs \cup {NoOptionsError}, shown, btn, choice)
       ELSE IF btn = desired_col
       THEN RenameLoop(i + 1, RenameColumn(columns, choice, desired_col), errs,
                       shown \cup {desired_col}, btn, choice)
       ELSE RenameLoop(i + 1, columns, errs, shown \cup {desired_col}, btn, choice)

RenameColumns ==
  /\ pc = "rename"
  /\ \E btn \in page_buttons \cup {"none"} :
     \E choice \in Range(available_options(df_raw.columns)) \cup {"none"} :
       /\ (btn = "none") = (choice = "none")
       /\ LET done == RenameLoop(1, df_raw.columns, errors, {}, btn, choice)
          IN  /\ df_raw' = [df_raw EXCEPT !.columns = done.columns]
              /\ errors' = done.errors
              /\ page_buttons' = done.buttons
              /\ clicked' = btn
              /\ confirmed' = IF btn = "none" THEN confirmed ELSE confirmed \cup {btn}
  /\ pc' = "parse_time"
  /\ UNCHANGED <<uploaded_file, exception, calibration_vars, output_vars>>

(***************************************************************************)
(* Parse the Time column (lines 109-117).                                  *)
(***************************************************************************)
MissingTimeError == [kind |-> "MissingTimeColumn", names |-> <<"Time">>]

ParseTime ==
  /\ pc = "parse_time"
  /\ IF "Time" \notin Range(df_raw.columns)
     THEN /\ errors' = errors \cup {MissingTimeError}
          /\ pc' = "stopped"
          /\ UNCHANGED df_raw
     ELSE /\ df_raw' = SetColumn(df_raw, "Time",
                [i \in 1..Len(df_raw.rows) |->
                   to_datetime(ColIndex(df_raw.columns, "Time"),
                               Cell(df_raw, df_raw.rows[i], "Time"))])
          /\ pc' = "validate"
          /\ UNCHANGED errors
  /\ UNCHANGED <<uploaded_file, page_buttons, confirmed, clicked, exception, calibration_vars, output_vars>>

(***************************************************************************)
(* Validate the required columns (lines 122-125).                          *)
(***************************************************************************)
MissingColumnError(names) == [kind |-> "MissingColumn", names |-> names]

ValidateColumns ==
  /\ pc = "validate"
  /\ IF missing_columns(df_raw.columns) # <<>>
     THEN /\ errors' = errors \cup {MissingColumnError(missing_columns(df_raw.columns))}
          /\ pc' = "stopped"
     ELSE /\ pc' = "clean"
          /\ UNCHANGED errors
  /\ UNCHANGED <<uploaded_file, page_buttons, confirmed, clicked, df_raw, exception, calibration_vars, output_vars>>

(***************************************************************************)
(* Drop the rows with an invalid Time (line 130).                          *)
(***************************************************************************)
CleanData ==
  /\ pc = "clean"
  /\ df_raw' = dropna(df_raw)
  /\ pc' = "calibrate"
  /\ UNCHANGED <<uploaded_file, page_buttons, confirmed, clicked, errors, exception, calibration_vars, output_vars>>

(***************************************************************************)
(* Calibration (lines 143-160).                                            *)
(***************************************************************************)
\* What the four number inputs hold: <<SEMS Min, SEMS Max, Grid Min, Grid Max>>.
\* The first is the page's default.
ReferenceInputs ==
  { <<0, 200, 0, 200>>, <<0, 200, 0, 180>>, <<100, 200, 20, 180>>,
    <<0, 100, 20, 200>>, <<100, 100, 0, 180>>, <<0, 0, 0, 200>> }
ReadingInputs == {100}

DegenerateError == [kind |-> "DegenerateCalibration", names |-> <<>>]

\* m = (max_actual - min_actual) / (max_meter - min_meter)
slope(lo_meter, hi_meter, lo_actual, hi_actual) ==
  RDiv(RSub(hi_actual, lo_actual), RSub(hi_meter, lo_meter))

\* Mutant: the intercept with the sign of the product flipped.
intercept_plus(m_, lo_meter, lo_actual) == RAdd(lo_actual, RMul(m_, lo_meter))

\* b = min_actual - (m * min_meter)
intercept(m_, lo_meter, lo_actual) == RSub(lo_actual, RMul(m_, lo_meter))

\* m * x + b
calibrated(m_, b_, x) == RAdd(RMul(m_, x), b_)

ComputeParams ==
  /\ pc = "calibrate"
  /\ \E ref \in ReferenceInputs :
     LET i1 == ref[1]
         i2 == ref[2]
         o1 == ref[3]
         o2 == ref[4]
     IN
       /\ min_meter' = Rat(i1) /\ max_meter' = Rat(i2)
       /\ min_actual' = Rat(o1) /\ max_actual' = Rat(o2)
       /\ IF i2 - i1 = 0
          THEN \* ZeroDivisionError, caught: reported, and the script goes on
               /\ errors' = errors \cup {DegenerateError}
               /\ UNCHANGED <<m, b>>
          ELSE /\ m' = slope(Rat(i1), Rat(i2), Rat(o1), Rat(o2))
               /\ b' = intercept(m', Rat(i1), Rat(o1))
               /\ UNCHANGED errors
  /\ pc' = "evaluate"
  /\ UNCHANGED <<uploaded_file, page_buttons, confirmed, clicked, df_raw, exception, adjusted_value, output_vars>>

(***************************************************************************)
(* Step 2: the probe reading (lines 162-167).                              *)
(***************************************************************************)
Evaluate ==
  /\ pc = "evaluate"
  /\ \E reading_input \in ReadingInputs :
       IF m = Unbound \/ b = Unbound
       THEN /\ exception' = "NameError"
            /\ pc' = "crashed"
            /\ UNCHANGED adjusted_value
       ELSE /\ adjusted_value' = calibrated(m, b, Rat(reading_input))
            /\ pc' = "apply"
            /\ UNCHANGED exception
  /\ UNCHANGED <<uploaded_file, page_buttons, confirmed, clicked, df_raw, errors, min_meter, max_meter,
                 min_actual, max_actual, m, b, output_vars>>

(***************************************************************************)
(* Calibrate the three channels (lines 170-172).                           *)
(***************************************************************************)
CalibrateColumn(df, label, m_, b_) ==
  SetColumn(df, label,
            [i \in 1..Len(df.rows) |-> calibrated(m_, b_, Cell(df, df.rows[i], label))])

\* Mutant: the Load channel is left as it was read.
apply_skip_load(df, m_, b_) ==
  CalibrateColumn(CalibrateColumn(df, "PV(W)", m_, b_), "Meter(W)", m_, b_)

apply(df, m_, b_) ==
  CalibrateColumn(
    CalibrateColumn(
      CalibrateColumn(df, "PV(W)", m_, b_), "Meter(W)", m_, b_), "Load(W)", m_, b_)

Apply ==
  /\ pc = "apply"
  /\ df_raw' = apply(df_raw, m, b)
  /\ pc' = "export"
  /\ UNCHANGED <<uploaded_file, page_buttons, confirmed, clicked, errors, exception, calibration_vars, output_vars>>

(***************************************************************************)
(* Data preview and the processed CSV (lines 177-192).                     *)
(***************************************************************************)
\* df.set_index("Time") followed by df.reset_index(): Time becomes the first
\* column, the other columns keep their order, the rows keep theirs.
reset_index(df) ==
  LET others == SelectSeq(df.columns, LAMBDA c : c # "Time")
      order  == <<"Time">> \o others
  IN  [columns |-> order,
       rows    |-> [i \in 1..Len(df.rows) |->
                      [j \in 1..Len(order) |-> Cell(df, df.rows[i], order[j])]]]

\* Mutant: index=False forgotten, so the row labels become a first column.
to_csv_with_index(df) ==
  [header |-> <<"">> \o df.columns,
   lines  |-> [i \in 1..Len(df.rows) |-> <<i - 1>> \o df.rows[i]]]

\* df.to_csv(index=False): a header line, then one line per row.
to_csv(df) == [header |-> df.columns, lines |-> df.rows]

Export ==
  /\ pc = "export"
  /\ df_plot' = reset_index(df_raw)
  /\ csv' = to_csv(df_plot')
  /\ pc' = "summarize"
  /\ UNCHANGED <<uploaded_file, page_buttons, confirmed, clicked, df_raw, errors, exception, calibration_vars,
                 summary, data_date, visible_series, markers, highlight, harvest>>

(***************************************************************************)
(* Summary statistics in kW (lines 197-240).                               *)
(***************************************************************************)
WattsPerKW == 1000

RECURSIVE SumSeq(_)
SumSeq(xs) == IF xs = <<>> THEN Rat(0) ELSE RAdd(xs[1], SumSeq(Tail(xs)))

RECURSIVE MinSeq(_)
MinSeq(xs) ==
  IF Len(xs) = 1 THEN xs[1]
  ELSE LET rest == MinSeq(Tail(xs)) IN IF RLe(xs[1], rest) THEN xs[1] ELSE rest

RECURSIVE MaxSeq(_)
MaxSeq(xs) ==
  IF Len(xs) = 1 THEN xs[1]
  ELSE LET rest == MaxSeq(Tail(xs)) IN IF RLe(rest, xs[1]) THEN xs[1] ELSE rest

\* Series.sum(), .min(), .max(), .mean()
Stats(xs) ==
  IF xs = <<>>
  THEN [total |-> Rat(0), min |-> NaN, max |-> NaN, mean |-> NaN]
  ELSE [total |-> SumSeq(xs), min |-> MinSeq(xs), max |-> MaxSeq(xs),
        mean  |-> RDiv(SumSeq(xs), Rat(Len(xs)))]

PV_KW(df, r)        == RDiv(Cell(df, r, "PV(W)"), Rat(WattsPerKW))
Load_KW(df, r)      == RDiv(Cell(df, r, "Load(W)"), Rat(WattsPerKW))
\* Mutant: the Meter column in kW keeps its sign.
Meter_KW_signed(df, r) == RDiv(Cell(df, r, "Meter(W)"), Rat(WattsPerKW))

Meter_KW_abs(df, r) == RDiv(RAbs(Cell(df, r, "Meter(W)")), Rat(WattsPerKW))

\* The three derived columns, added to df_plot one after the other.
WithKW(df) ==
  LET n  == Len(df.rows)
      d1 == SetColumn(df, "PV_KW", [i \in 1..n |-> PV_KW(df, df.rows[i])])
      d2 == SetColumn(d1, "Load_KW", [i \in 1..n |-> Load_KW(d1, d1.rows[i])])
  IN  SetColumn(d2, "Meter_KW_abs", [i \in 1..n |-> Meter_KW_abs(d2, d2.rows[i])])

Summarize ==
  /\ pc = "summarize"
  /\ df_plot' = WithKW(df_plot)
  /\ summary' = [pv    |-> Stats(Column(df_plot', "PV_KW")),
                 load  |-> Stats(Column(df_plot', "Load_KW")),
                 meter |-> Stats(Column(df_plot', "Meter_KW_abs"))]
  \* min_meter and max_meter are bound again, to the Meter statistics
  /\ min_meter' = summary'.meter.min
  /\ max_meter' = summary'.meter.max
  /\ pc' = "date"
  /\ UNCHANGED <<uploaded_file, page_buttons, confirmed, clicked, df_raw, errors, exception, min_actual,
                 max_actual, m, b, adjusted_value, csv, data_date, visible_series,
                 markers, highlight, harvest>>

(***************************************************************************)
(* The representative date (line 217).                                     *)
(***************************************************************************)
RECURSIVE MinTime(_)
MinTime(ts) ==
  IF ts = <<>> THEN NaT
  ELSE IF Len(ts) = 1 THEN ts[1]
  ELSE LET rest == MinTime(Tail(ts)) IN IF ts[1] <= rest THEN ts[1] ELSE rest

RECURSIVE MaxTime(_)
MaxTime(ts) ==
  IF ts = <<>> THEN NaT
  ELSE IF Len(ts) = 1 THEN ts[1]
  ELSE LET rest == MaxTime(Tail(ts)) IN IF ts[1] >= rest THEN ts[1] ELSE rest

\* strftime("%b %d, %Y"): the day, without the time of day.
strftime_date(t) == t \div MinutesPerDay

RepresentativeDate ==
  /\ pc = "date"
  /\ IF MinTime(Column(df_plot, "Time")) = NaT
     THEN \* NaT.strftime raises
          /\ exception' = "ValueError"
          /\ pc' = "crashed"
          /\ UNCHANGED data_date
     ELSE /\ data_date' = strftime_date(MinTime(Column(df_plot, "Time")))
          /\ pc' = "markers"
          /\ UNCHANGED exception
  /\ UNCHANGED <<uploaded_file, page_buttons, confirmed, clicked, df_raw, errors, calibration_vars, csv,
                 df_plot, summary, visible_series, markers, highlight, harvest>>

(***************************************************************************)
(* Series visibility and the max/min markers (lines 246-322).              *)
(***************************************************************************)
Channels == <<"PV(W)", "Meter(W)", "Load(W)">>

VisibleChoices == { <<"PV(W)", "Meter(W)", "Load(W)">>, <<"Meter(W)">>, <<>> }

\* idxmax() returning the last position holding the greatest value.
idxmax_last(xs) == CHOOSE i \in 1..Len(xs) :
                     /\ \A j \in 1..Len(xs) : RLe(xs[j], xs[i])
                     /\ \A j \in (i + 1)..Len(xs) : RLt(xs[j], xs[i])

\* Series.idxmax(): the first position holding the greatest value.
idxmax(xs) == CHOOSE i \in 1..Len(xs) :
                /\ \A j \in 1..Len(xs) : RLe(xs[j], xs[i])
                /\ \A j \in 1..(i - 1) : RLt(xs[j], xs[i])

\* Series.idxmin(): the first position holding the smallest value.
idxmin(xs) == CHOOSE i \in 1..Len(xs) :
                /\ \A j \in 1..Len(xs) : RLe(xs[i], xs[j])
                /\ \A j \in 1..(i - 1) : RLt(xs[i], xs[j])

AbsSeq(xs) == [i \in 1..Len(xs) |-> RAbs(xs[i])]

Marker(df, col) ==
  LET xs      == Column(df, col)
      keyed   == IF col = "Meter(W)" THEN AbsSeq(xs) ELSE xs
      max_idx == idxmax(keyed)
      min_idx == idxmin(keyed)
  IN  [col |-> col,
       max_idx |-> max_idx,
       max_time |-> Cell(df, df.rows[max_idx], "Time"), max_val |-> xs[max_idx],
       min_idx |-> min_idx,
       min_time |-> Cell(df, df.rows[min_idx], "Time"), min_val |-> xs[min_idx]]

Markers(df, visible) ==
  LET shown == SelectSeq(Channels, LAMBDA c : c \in Range(visible) /\ df.rows # <<>>)
  IN  [i \in 1..Len(shown) |-> Marker(df, shown[i])]

AddMarkers ==
  /\ pc = "markers"
  /\ \E v \in VisibleChoices :
       /\ visible_series' = v
       /\ markers' = Markers(df_plot, v)
  /\ pc' = "highlight"
  /\ UNCHANGED <<uploaded_file, page_buttons, confirmed, clicked, df_raw, errors, exception, calibration_vars,
                 csv, df_plot, summary, data_date, highlight, harvest>>

(***************************************************************************)
(* Highlight the points inside a range (lines 343-367).  series is the     *)
(* channel whose "Highlight ... Range" box is ticked, "none" when no box   *)
(* is ticked.                                                              *)
(***************************************************************************)
\* (lower, upper) threshold pairs; in the second, lower > upper.
HighlightRanges == {<<0, 2000>>, <<2000, 0>>}

\* df_plot[(df_plot[col] >= lower) & (df_plot[col] <= upper)]
filter_range(df, col, lower, upper) ==
  [df EXCEPT !.rows =
     SelectSeq(df.rows,
               LAMBDA r : RLe(lower, Cell(df, r, col)) /\ RLe(Cell(df, r, col), upper))]

Highlight ==
  /\ pc = "highlight"
  /\ \E series \in Range(Channels) \cup {"none"} :
       IF series \in Range(visible_series)
       THEN \E range \in HighlightRanges :
              LET lower == Rat(range[1])
                  upper == Rat(range[2])
                  df_highlight == filter_range(df_plot, series, lower, upper)
              IN  highlight' = [series |-> series, lower |-> lower, upper |-> upper,
                                rows |-> df_highlight.rows,
                                trace |-> df_highlight.rows # <<>>]
       ELSE highlight' = NoHighlight
  /\ pc' = "harvest"
  /\ UNCHANGED <<uploaded_file, page_buttons, confirmed, clicked, df_raw, errors, exception, calibration_vars,
                 csv, df_plot, summary, data_date, visible_series, markers, harvest>>

(***************************************************************************)
(* HARVEST VS GRID over the selected time range, then the changelog        *)
(* download, which ends the script (lines 384-500).                        *)
(***************************************************************************)
\* Positions of the time slider between the two ends.
SliderStops == {147}

\* Mutant: the upper end of the interval is left out.
filter_time_open_end(df, start, end) ==
  [df EXCEPT !.rows =
     SelectSeq(df.rows,
               LAMBDA r : Cell(df, r, "Time") >= start /\ Cell(df, r, "Time") < end)]

\* df_plot[(df_plot["Time"] >= start) & (df_plot["Time"] <= end)]
filter_time(df, start, end) ==
  [df EXCEPT !.rows =
     SelectSeq(df.rows,
               LAMBDA r : Cell(df, r, "Time") >= start /\ Cell(df, r, "Time") <= end)]

harvest_grid_split(df, start, end) ==
  LET df_total == filter_time(df, start, end)
  IN  IF df_total.rows = <<>>
      THEN [state |-> "no_data", total_pv |-> Unbound, total_meter_abs |-> Unbound,
            range |-> <<start, end>>]
      ELSE [state |-> "ok",
            total_pv |-> RDiv(SumSeq(Column(df_total, "PV(W)")), Rat(WattsPerKW)),
            total_meter_abs |->
              RDiv(SumSeq(AbsSeq(Column(df_total, "Meter(W)"))), Rat(WattsPerKW)),
            range |-> <<start, end>>]

HarvestGrid ==
  /\ pc = "harvest"
  /\ LET time_min == MinTime(Column(df_plot, "Time"))
         time_max == MaxTime(Column(df_plot, "Time"))
         inside   == {t \in SliderStops : time_min <= t /\ t <= time_max}
     IN  \E start \in inside \cup {time_min}, end \in inside \cup {time_max} :
           /\ start <= end
           /\ harvest' = harvest_grid_split(df_plot, start, end)
  /\ pc' = "done"
  /\ UNCHANGED <<uploaded_file, page_buttons, confirmed, clicked, df_raw, errors, exception, calibration_vars,
                 csv, df_plot, summary, data_date, visible_series, markers, highlight>>

(***************************************************************************)
(* Any interaction with the page runs the script again from the top.       *)
(***************************************************************************)
RunEnded == pc \in {"done", "stopped", "crashed"}

Rerun ==
  /\ RunEnded
  /\ pc' = "read"
  /\ clicked' = "none"
  /\ df_raw' = NoFrame
  /\ errors' = {}
  /\ exception' = "none"
  /\ min_meter' = Unbound /\ max_meter' = Unbound
  /\ min_actual' = Unbound /\ max_actual' = Unbound
  /\ m' = Unbound /\ b' = Unbound
  /\ adjusted_value' = Unbound
  /\ csv' = NoCsv
  /\ df_plot' = NoFrame
  /\ summary' = NoSummary
  /\ data_date' = NaT
  /\ visible_series' = <<>>
  /\ markers' = <<>>
  /\ highlight' = NoHighlight
  /\ harvest' = NoHarvest
  /\ UNCHANGED <<uploaded_file, page_buttons, confirmed>>

Next ==
  \/ ReadFile
  \/ RenameColumns
  \/ ParseTime
  \/ ValidateColumns
  \/ CleanData
  \/ ComputeParams
  \/ Evaluate
  \/ Apply
  \/ Export
  \/ Summarize
  \/ RepresentativeDate
  \/ AddMarkers
  \/ Highlight
  \/ HarvestGrid
  \/ Rerun

Spec == Init /\ [][Next]_vars

(***************************************************************************)
(* Properties.                                                             *)
(***************************************************************************)
\* The sections of the script after the column validation.
AfterValidation ==
  {"clean", "calibrate", "evaluate", "apply", "export", "summarize", "date",
   "markers", "highlight", "harvest", "done", "crashed"}

\* The required fields the table lacks.
AbsentFields == {c \in Range(required_columns) : c \notin Range(df_raw.columns)}

\* C1: whenever the two calibration reference inputs are equal, the failure
\* is reported and the run halts there: the probe check and the transform of
\* the channels are not reached, and no unbound slope or intercept is used.
C1_DegenerateHalts ==
  (DegenerateError \in errors) => (pc = "stopped" /\ exception = "none")

\* C2: calibration, export, aggregation and extrema run only when all four
\* required fields are among the table's columns after the mapping step;
\* when a field is absent the run halts before calibration with an error
\* that names missing field(s): Time when Time is absent, otherwise every
\* absent field.
C2_StagesNeedAllFields ==
  /\ pc \in AfterValidation => AbsentFields = {}
  /\ (m # Unbound \/ csv # NoCsv \/ summary # NoSummary \/ markers # <<>>)
        => AbsentFields = {}
  /\ (pc = "stopped") =>
        /\ AbsentFields # {}
        /\ m = Unbound /\ b = Unbound /\ csv = NoCsv /\ summary = NoSummary
        /\ \E e \in errors :
             /\ e.kind \in {"MissingColumn", "MissingTimeColumn"}
             /\ Range(e.names) # {}
             /\ Range(e.names) \subseteq AbsentFields
             /\ "Time" \notin AbsentFields => Range(e.names) = AbsentFields

\* C2 witness: a run halted by the validation, the error naming PV(W).
C2_Witness ==
  /\ pc = "stopped"
  /\ "Time" \in Range(df_raw.columns)
  /\ MissingColumnError(<<"PV(W)">>) \in errors

\* The sections in which min_meter and max_meter still hold the references.
ReferencesBound == {"evaluate", "apply", "export", "summarize"}

\* C3: for reference inputs that differ, slope and intercept map
\* ref_input_min to ref_output_min and ref_input_max to ref_output_max; with
\* (0,200)->(0,180) the slope is 0.9, the intercept 0 and evaluate(100) = 90.
C3_ExactAtReferences ==
  (pc \in ReferencesBound /\ m # Unbound) =>
     /\ min_meter # max_meter
     /\ m = RDiv(RSub(max_actual, min_actual), RSub(max_meter, min_meter))
     /\ calibrated(m, b, min_meter) = min_actual
     /\ calibrated(m, b, max_meter) = max_actual
     /\ (min_meter = Rat(0) /\ max_meter = Rat(200) /\ min_actual = Rat(0)
         /\ max_actual = Rat(180)) =>
           /\ m = <<9, 10>> /\ b = Rat(0)
           /\ adjusted_value # Unbound => adjusted_value = Rat(90)

\* C3 witness: a non-zero intercept, computed and used by the probe check.
C3_Witness ==
  /\ pc = "apply"
  /\ min_meter = Rat(100) /\ max_meter = Rat(200)
  /\ min_actual = Rat(20) /\ max_actual = Rat(180)
  /\ m = <<8, 5>> /\ b = Rat(-140)
  /\ adjusted_value = Rat(20)

\* The rows of the file whose Time cell is a date-time, in file order.
SurvivingFileRows == SelectSeq(uploaded_file.rows, LAMBDA r : r[1] # "N/A")

NumRecords == Len(SurvivingFileRows)

\* The record of file row r as read, Time first.
RawRecord(r) == <<ParseText(r[1]), Rat(r[2]), Rat(r[3]), Rat(r[4])>>

\* scale * value + offset
Expected(value) == RAdd(RMul(m, Rat(value)), b)

\* The record of file row r with the three channels calibrated.
CalibratedRecord(r) == <<ParseText(r[1]), Expected(r[2]), Expected(r[3]), Expected(r[4])>>

RawRecords == [i \in 1..NumRecords |-> RawRecord(SurvivingFileRows[i])]
CalibratedRecords == [i \in 1..NumRecords |-> CalibratedRecord(SurvivingFileRows[i])]

\* The first four cells of every row of a table: Time, PV(W), Meter(W), Load(W).
Records(rows) == [i \in 1..Len(rows) |-> SubSeq(rows[i], 1, 4)]

\* The PV(W), Meter(W), Load(W) cells of every row of a table, and of every
\* record of a sequence of records.
ChannelCells(df) ==
  [i \in 1..Len(df.rows) |->
     <<Cell(df, df.rows[i], "PV(W)"), Cell(df, df.rows[i], "Meter(W)"),
       Cell(df, df.rows[i], "Load(W)")>>]
Readings(records) == [i \in 1..Len(records) |-> SubSeq(records[i], 2, 4)]

\* Sections between cleaning and the transform, and after the transform.
CleanedNotApplied == {"calibrate", "evaluate", "apply"}
AfterApply == {"export", "summarize", "date", "markers", "highlight", "harvest", "done"}
Applied == pc \in AfterApply \/ (pc = "crashed" /\ exception = "ValueError")

\* C4: in a run that reaches calibration the three channels of every
\* surviving record are replaced once by scale*value + offset, with the one
\* (scale, offset) pair, before the export and the table the summaries,
\* extrema and harvest/grid split read are made; scale 1, offset 0 changes
\* nothing.
C4_CalibratedOnce ==
  /\ pc \in CleanedNotApplied => ChannelCells(df_raw) = Readings(RawRecords)
  /\ Applied =>
       /\ ChannelCells(df_raw) = Readings(CalibratedRecords)
       /\ (m = Rat(1) /\ b = Rat(0)) => ChannelCells(df_raw) = Readings(RawRecords)
  /\ df_plot # NoFrame => ChannelCells(df_plot) = Readings(CalibratedRecords)
  /\ csv # NoCsv =>
       ChannelCells([columns |-> csv.header, rows |-> csv.lines])
          = Readings(CalibratedRecords)

\* C4 witness: the transform has acted with a scale other than 1 and a
\* non-zero offset, and the export has been made from its result.
C4_Witness ==
  /\ pc = "summarize"
  /\ m = <<8, 5>> /\ b = Rat(-140)
  /\ Len(df_raw.rows) = 2
  /\ Cell(df_raw, df_raw.rows[1], "Load(W)") = Rat(2260)
  /\ Len(csv.lines) = 2

\* C5: a row whose Time cell cannot be parsed is in no record set used after
\* cleaning; a row whose Time cell parses survives, in every such set, with
\* its own PV/Meter/Load values.
C5_UnparseableRowsDropped ==
  LET cal == CalibratedRecords
  IN  /\ (pc \in CleanedNotApplied) => df_raw.rows = RawRecords
      /\ Applied => df_raw.rows = cal
      /\ csv # NoCsv => csv.lines = cal
      /\ df_plot # NoFrame =>
           /\ Records(df_plot.rows) = cal
           /\ \A i \in 1..Len(df_plot.rows) : df_plot.rows[i][1] # NaT
      /\ \A i \in 1..Len(markers) :
           /\ markers[i].max_time # NaT /\ markers[i].min_time # NaT
           /\ \E k \in 1..NumRecords :
                /\ markers[i].max_time = cal[k][1]
                /\ markers[i].max_val = cal[k][ColIndex(required_columns, markers[i].col)]
      /\ \A i \in 1..Len(highlight.rows) :
           \E k \in 1..NumRecords : SubSeq(highlight.rows[i], 1, 4) = cal[k]

\* C5 witness: a file with a parseable and an unparseable Time cell, cleaned.
C5_Witness ==
  /\ pc = "calibrate"
  /\ Len(uploaded_file.rows) = 3
  /\ uploaded_file.rows[2][1] = "N/A"
  /\ Len(df_raw.rows) = 2
  /\ df_raw.rows[2] = <<150, Rat(3000), Rat(-3000), Rat(6000)>>

\* The sections after the summary statistics are computed.
Summarized ==
  pc \in {"date", "markers", "highlight", "harvest", "done"}
  \/ (pc = "crashed" /\ exception = "ValueError")

\* Sum of f[i] over the indices i in 1..n that satisfy keep[i].
RECURSIVE SumOver(_, _, _)
SumOver(f, keep, n) ==
  IF n = 0 THEN Rat(0)
  ELSE IF keep[n] THEN RAdd(SumOver(f, keep, n - 1), f[n])
  ELSE SumOver(f, keep, n - 1)

Magnitude(x) == IF RLt(x, Rat(0)) THEN RSub(Rat(0), x) ELSE x

\* The calibrated watt values of the surviving records, per channel; the
\* Meter values by magnitude.
PVWatts    == [i \in 1..NumRecords |-> Expected(SurvivingFileRows[i][2])]
LoadWatts  == [i \in 1..NumRecords |-> Expected(SurvivingFileRows[i][4])]
MeterWatts == [i \in 1..NumRecords |-> Magnitude(Expected(SurvivingFileRows[i][3]))]

\* st is the summary, in kW, of the watt values ws.
IsSummaryOf(st, ws) ==
  LET n     == Len(ws)
      total == RMul(st.total, Rat(WattsPerKW))
      least == RMul(st.min, Rat(WattsPerKW))
      most  == RMul(st.max, Rat(WattsPerKW))
  IN  /\ total = SumOver(ws, [i \in 1..n |-> TRUE], n)
      /\ \A i \in 1..n : RLe(least, ws[i]) /\ RLe(ws[i], most)
      /\ \E i \in 1..n : least = ws[i]
      /\ \E i \in 1..n : most = ws[i]
      /\ RMul(st.mean, Rat(n)) = st.total

\* C6: for a non-empty record set the Meter summary (total, min, max, mean)
\* is taken over abs(meter_w)/1000 and the PV and Load summaries over the
\* signed values /1000; pv_w = [1000, 2000, 3000] gives 6, 1, 3, 2.
C6_SummaryPerChannel ==
  (Summarized /\ NumRecords > 0) =>
     LET pv == PVWatts
         load == LoadWatts
         meter == MeterWatts
     IN  /\ IsSummaryOf(summary.meter, meter)
         /\ IsSummaryOf(summary.pv, pv)
         /\ IsSummaryOf(summary.load, load)
         /\ pv = <<Rat(1000), Rat(2000), Rat(3000)>> =>
              summary.pv = [total |-> Rat(6), min |-> Rat(1), max |-> Rat(3),
                            mean |-> Rat(2)]

\* C6 witness: three records with PV 1000, 2000, 3000 W and Meter -500, 500,
\* -3000 W, summarised.
C6_Witness ==
  /\ pc = "date"
  /\ summary.pv = [total |-> Rat(6), min |-> Rat(1), max |-> Rat(3), mean |-> Rat(2)]
  /\ summary.meter = [total |-> Rat(4), min |-> <<1, 2>>, max |-> Rat(3),
                      mean |-> <<4, 3>>]

\* The times of the surviving records, and the ends of the time axis.
Times == [i \in 1..NumRecords |-> ParseText(SurvivingFileRows[i][1])]
FirstTime == CHOOSE t \in Range(Times) : \A u \in Range(Times) : t <= u
LastTime  == CHOOSE t \in Range(Times) : \A u \in Range(Times) : t >= u

\* C7: the harvest/grid split over [start, end] sums pv_w/1000 and
\* |meter_w|/1000 over exactly the records with start <= timestamp <= end,
\* by timestamp value; over [min timestamp, max timestamp] it equals the
\* whole-series PV and Meter summary totals.
C7_HarvestGridSplit ==
  (pc = "done") =>
     LET times == Times
         inside == [i \in 1..NumRecords |->
                      harvest.range[1] <= times[i] /\ times[i] <= harvest.range[2]]
     IN  /\ harvest.state \in {"ok", "no_data"}
         /\ harvest.state = "no_data" <=> \A i \in 1..NumRecords : ~inside[i]
         /\ harvest.state = "ok" =>
              /\ RMul(harvest.total_pv, Rat(WattsPerKW)) =
                   SumOver(PVWatts, inside, NumRecords)
              /\ RMul(harvest.total_meter_abs, Rat(WattsPerKW)) =
                   SumOver(MeterWatts, inside, NumRecords)
         /\ harvest.range = <<FirstTime, LastTime>> =>
              /\ harvest.state = "ok"
              /\ harvest.total_pv = summary.pv.total
              /\ harvest.total_meter_abs = summary.meter.total

\* C7 witness: records out of time order, the full range selected.
C7_Witness ==
  /\ pc = "done"
  /\ Times = <<150, 140, 145>>
  /\ harvest.range = <<140, 150>>
  /\ harvest.state = "ok"
  /\ harvest.total_pv = summary.pv.total

\* The columns of the kilowatt values.
KWColumns == {"PV_KW", "Load_KW", "Meter_KW_abs"}

\* C8 as claimed: the processed-table export has a header row, one row per
\* surviving record, and the derived kilowatt columns beside Time and the
\* three calibrated watt columns.
C8_ExportHasKWColumns ==
  csv # NoCsv =>
     /\ Range(csv.header) = Range(required_columns) \cup KWColumns
     /\ Len(csv.lines) = NumRecords

\* C8 as amended: the export has the header Time, PV(W), Meter(W), Load(W),
\* one line per surviving record holding its time and calibrated watt
\* values, and no kilowatt column: those are added to the table after the
\* export text is made, and the export is not made again.
C8_ExportBeforeKWColumns ==
  csv # NoCsv =>
     /\ csv.header = required_columns
     /\ Range(csv.header) \cap KWColumns = {}
     /\ Len(csv.lines) = NumRecords
     /\ csv.lines = CalibratedRecords
     /\ Summarized => KWColumns \subseteq Range(df_plot.columns)

\* C8 witness: the kilowatt columns are in the table, the export lacks them.
C8_Witness ==
  /\ pc = "date"
  /\ NumRecords = 2
  /\ Len(csv.lines) = 2
  /\ "PV_KW" \in Range(df_plot.columns)
  /\ "PV_KW" \notin Range(csv.header)

\* A run met a halting condition: a required field without a column, or
\* equal calibration references.
FatalCondition == AbsentFields # {} \/ DegenerateError \in errors

\* C9: empty range filters, empty time intervals and unparseable Time cells
\* never abort a run: without a halting condition the run goes on to its end.
C9_NonFatalNeverAbort ==
  /\ (pc \in {"crashed", "stopped"}) => FatalCondition
  /\ exception # "none" => FatalCondition

\* C10: the representative date is never computed on an empty record set:
\* when no row survives cleaning the run stops before the summary stage.
C10_DateOnNonEmpty ==
  /\ pc \in {"summarize", "date"} => df_plot.rows # <<>>
  /\ exception # "ValueError"

\* ---------------------------------------------------------------------------
\* Extremum markers
\* ---------------------------------------------------------------------------
AfterMarkers == pc \in {"highlight", "harvest", "done"}

\* The calibrated Meter watt values of the surviving records, signed.
MeterSigned == [i \in 1..NumRecords |-> Expected(SurvivingFileRows[i][3])]

\* The values a channel's records are ranked by, and the values they hold.
RankedBy(col) ==
  IF col = "Meter(W)" THEN MeterWatts ELSE IF col = "PV(W)" THEN PVWatts ELSE LoadWatts
Held(col) ==
  IF col = "Meter(W)" THEN MeterSigned ELSE IF col = "PV(W)" THEN PVWatts ELSE LoadWatts

\* The positions of ws holding its greatest and its smallest value, and the
\* earliest position of a set of positions.
GreatestAt(ws) == {i \in 1..Len(ws) : \A j \in 1..Len(ws) : RLe(ws[j], ws[i])}
SmallestAt(ws) == {i \in 1..Len(ws) : \A j \in 1..Len(ws) : RLe(ws[i], ws[j])}
Earliest(S) == CHOOSE i \in S : \A k \in S : i <= k

\* mk marks the record at position i of the surviving records as an extremum
\* of channel col: i is the earliest position of the set at, and the marker
\* carries that record's timestamp and signed value.
MarksRecord(col, at, idx, time, val) ==
  /\ at # {}
  /\ idx = Earliest(at)
  /\ time = Times[idx]
  /\ val = Held(col)[idx]

\* C11: once the markers are placed over a non-empty record set, every visible
\* channel has one max and one min marker; the Meter markers sit on the records
\* with the greatest and the smallest absolute meter value, the PV and Load
\* markers on the records with the greatest and the smallest signed value, and
\* among tied records the first in storage order is marked.
C11_ExtremaSelection ==
  (AfterMarkers /\ NumRecords > 0) =>
    /\ [k \in 1..Len(markers) |-> markers[k].col]
         = SelectSeq(Channels, LAMBDA c : c \in Range(visible_series))
    /\ \A k \in 1..Len(markers) :
         LET mk == markers[k] IN
           /\ MarksRecord(mk.col, GreatestAt(RankedBy(mk.col)),
                          mk.max_idx, mk.max_time, mk.max_val)
           /\ MarksRecord(mk.col, SmallestAt(RankedBy(mk.col)),
                          mk.min_idx, mk.min_time, mk.min_val)

\* Three records with Meter -500, 500, -500 and equal PV in the first and the
\* last, uncalibrated, all channels visible: the Meter max marker is the
\* first record (value -500, not the signed maximum 500) and the PV min
\* marker is the first of the two tied records.
C11_Witness ==
  /\ pc = "highlight"
  /\ m = Rat(1) /\ b = Rat(0)
  /\ MeterSigned = <<Rat(-500), Rat(500), Rat(-500)>>
  /\ PVWatts[1] = PVWatts[3] /\ RLt(PVWatts[1], PVWatts[2])
  /\ Len(markers) = 3
  /\ markers[2].col = "Meter(W)" /\ markers[2].max_idx = 1
  /\ markers[2].max_val = Rat(-500)
  /\ markers[1].col = "PV(W)" /\ markers[1].min_idx = 1

\* ---------------------------------------------------------------------------
\* Completing the column mapping one rename per run
\* ---------------------------------------------------------------------------
\* The required fields the uploaded file lacks.
FileAbsentFields ==
  {c \in Range(required_columns) : c \notin Range(uploaded_file.columns)}

\* The run is past the renaming section.
AfterRename == pc \notin {"read", "rename"}

\* C12: for a file that lacks two or more required fields, in a run started
\* by a rename button the renames confirmed in earlier runs are still in
\* effect, so that in the run in which the last missing field is confirmed
\* all four fields are present and the run passes the column validation.
C12_RenamesAccumulate ==
  (Cardinality(FileAbsentFields) >= 2 /\ clicked # "none" /\ AfterRename) =>
    /\ confirmed \subseteq Range(df_raw.columns)
    /\ (FileAbsentFields \subseteq confirmed /\ RunEnded) => pc \in AfterValidation

\* What the code does instead: a file that lacks two or more required fields
\* never gets past the column validation, whatever is clicked.
C12_NeverComplete ==
  Cardinality(FileAbsentFields) >= 2 => pc \notin AfterValidation

\* A run in which the second of two missing fields has just been confirmed.
C12_LastFieldConfirmed ==
  /\ Cardinality(FileAbsentFields) >= 2
  /\ clicked # "none"
  /\ FileAbsentFields \subseteq confirmed
  /\ pc = "stopped"

====
